---- MODULE Spec2Model ----
(***************************************************************************)
(* A model of autorename (src/src/autorename/autorename.py): the filename  *)
(* decision engine (generate_filename, process_file) and the directory     *)
(* configuration resolver (get_directory_config) over a small filesystem.  *)
(*                                                                         *)
(* Strings the code inspects character by character (file names, path      *)
(* components, digests) are sequences of one-character strings.  A path is *)
(* the sequence of its components; an absolute path starts with the        *)
(* component "/", and the empty sequence is the empty string "".           *)
(* File contents are TLA+ strings that stand for the bytes of the file.    *)
(***************************************************************************)
EXTENDS Integers, Sequences, FiniteSets, TLC

VARIABLES
  fs,                       \* the filesystem: path -> node
  cached_directory_config,  \* the module's cache: queried path -> config or None
  localzone,                \* the zone of the system the process runs on
  last,                     \* the last call made, how it ended, what it did
  committed,                \* the paths a committed rename gave their name
  calls                     \* the number of calls made so far

vars == <<fs, cached_directory_config, localzone, last, committed, calls>>

(***************************************************************************)
(* Characters and strings                                                  *)
(***************************************************************************)

UpperCase == <<"A","B","C","D","E","F","G","H","I","J","K","L","M",
               "N","O","P","Q","R","S","T","U","V","W","X","Y","Z">>

LowerCase == <<"a","b","c","d","e","f","g","h","i","j","k","l","m",
               "n","o","p","q","r","s","t","u","v","w","x","y","z">>

Digits == <<"0","1","2","3","4","5","6","7","8","9">>

\* The characters the regular expressions' \s matches (and \S excludes).
WhiteSpace == {" ", "\t", "\n", "\r", "\f"}

\* re: \d
IsDigit(c) == c \in {Digits[i] : i \in 1..10}

\* re: \S
IsNonSpace(c) == c \notin WhiteSpace

\* The lower-case letter of each upper-case letter.
LowerOf ==
  [c \in {UpperCase[i] : i \in 1..26} |->
     LowerCase[CHOOSE i \in 1..26 : UpperCase[i] = c]]

\* str.lower() on one character
LowerChar(c) == IF c \in DOMAIN LowerOf THEN LowerOf[c] ELSE c

\* No lower-casing: the string as it is.
Lower_Identity(s) == s

\* str.lower()
Lower(s) == [i \in 1..Len(s) |-> LowerChar(s[i])]

\* str.endswith(suffix)
EndsWith(s, suffix) ==
  /\ Len(s) >= Len(suffix)
  /\ SubSeq(s, Len(s) - Len(suffix) + 1, Len(s)) = suffix

\* The decimal digits of n, zero-padded to the given width (strftime's
\* %Y, %m, %d, %H and %M fields).
RECURSIVE ZeroPad(_, _)
ZeroPad(n, width) ==
  IF width = 0 THEN <<>>
  ELSE Append(ZeroPad(n \div 10, width - 1), Digits[(n % 10) + 1])

\* The number a string of decimal digits denotes.
RECURSIVE DigitsValue(_)
DigitsValue(s) ==
  IF s = <<>> THEN 0
  ELSE 10 * DigitsValue(SubSeq(s, 1, Len(s) - 1))
       + (CHOOSE i \in 0..9 : Digits[i + 1] = s[Len(s)])

(***************************************************************************)
(* Program constants                                                       *)
(***************************************************************************)

\* EXTENSIONS, in the order of the list
EXTENSIONS == << <<"j","p","g">>, <<"j","p","e","g">>, <<"g","i","f">>,
                 <<"m","4","a">>, <<"m","o","v">>, <<"m","p","4">>,
                 <<"p","d","f">>, <<"p","n","g">>, <<"w","e","b","p">>,
                 <<"h","e","i","c">>, <<"p","p","t","x">>,
                 <<"d","o","c","x">>, <<"x","l","s","x">> >>

Jpg  == <<"j","p","g">>
Jpeg == <<"j","p","e","g">>

\* ".DS_Store"
DS_Store == <<".","D","S","_","S","t","o","r","e">>

\* ".autorename.ini"
IniName == <<".","a","u","t","o","r","e","n","a","m","e",".","i","n","i">>

\* The zone TIMEZONE names.
TIMEZONE == "America/Los_Angeles"

(***************************************************************************)
(* Paths (os.path) and the filesystem                                      *)
(***************************************************************************)

Slash == <<"/">>

\* "/"
Root == <<Slash>>

\* The process's working directory, against which relative paths resolve.
Cwd == <<Slash, <<"h","o","m","e">> >>

IsAbs(p) == p # <<>> /\ p[1] = Slash

\* os.path.join(path, name), for a name that is a single component
Join(p, name) == Append(p, name)

\* os.path.dirname(path): "/" for "/" and for "/x", "" for "x" and for ""
Dirname(p) ==
  IF p = <<>> THEN <<>>
  ELSE IF p = Root THEN Root
  ELSE SubSeq(p, 1, Len(p) - 1)

\* os.path.basename(path)
Basename(p) == IF p = <<>> \/ p = Root THEN <<>> ELSE p[Len(p)]

\* The absolute path the kernel resolves p to.
Resolve(p) == IF IsAbs(p) THEN p ELSE Cwd \o p

\* os.path.exists(p): stat("") fails, so the empty path does not exist
Exists(f, p) == p # <<>> /\ Resolve(p) \in DOMAIN f

\* os.path.isfile(p)
IsFile(f, p) == Exists(f, p) /\ f[Resolve(p)].kind = "file"

\* os.path.isdir(p)
IsDir(f, p) == Exists(f, p) /\ f[Resolve(p)].kind = "dir"

DirNode == [kind |-> "dir", mtime |-> 0, content |-> ""]

FileNode(mtime, content) == [kind |-> "file", mtime |-> mtime, content |-> content]

\* os.remove(p) on a regular file
Remove(f, p) == [q \in DOMAIN f \ {Resolve(p)} |-> f[q]]

\* os.rename(src, dst) of a regular file: dst is created or replaced, src is
\* gone unless it is dst itself; the node (mtime, content) is kept
Rename(f, src, dst) ==
  [q \in (DOMAIN f \ {Resolve(src)}) \cup {Resolve(dst)} |->
     IF q = Resolve(dst) THEN f[Resolve(src)] ELSE f[q]]

\* os.listdir(path), as a set of names
ListDir(f, path) ==
  LET dir == Resolve(path)
  IN  { q[Len(q)] : q \in { r \in DOMAIN f :
                              Len(r) = Len(dir) + 1 /\ SubSeq(r, 1, Len(dir)) = dir } }

(***************************************************************************)
(* Time: datetime.datetime.fromtimestamp and strftime                      *)
(***************************************************************************)

\* The proleptic Gregorian date of a day number (days since 1970-01-01).
CivilFromDays(days) ==
  LET z   == days + 719468
      era == z \div 146097
      doe == z - era * 146097
      yoe == (doe - doe \div 1460 + doe \div 36524 - doe \div 146096) \div 365
      doy == doe - (365 * yoe + yoe \div 4 - yoe \div 100)
      mp  == (5 * doy + 2) \div 153
      d   == doy - (153 * mp + 2) \div 5 + 1
      m   == IF mp < 10 THEN mp + 3 ELSE mp - 9
      y   == yoe + era * 400 + (IF m <= 2 THEN 1 ELSE 0)
  IN  [year |-> y, month |-> m, day |-> d]

\* The day number of a proleptic Gregorian date.
DaysFromCivil(year, month, day) ==
  LET y   == IF month <= 2 THEN year - 1 ELSE year
      era == y \div 400
      yoe == y - era * 400
      doy == (153 * (IF month > 2 THEN month - 3 ELSE month + 9) + 2) \div 5 + day - 1
      doe == yoe * 365 + yoe \div 4 - yoe \div 100 + doy
  IN  era * 146097 + doe - 719468

\* The first Sunday on or after a day number (1970-01-01 was a Thursday).
FirstSundayFrom(days) == days + ((7 - ((days + 4) % 7)) % 7)

\* The offset from UTC, in seconds, of a zone at the instant t (seconds since
\* the epoch).  America/Los_Angeles follows the tz database's rule for 2007
\* onwards: daylight time from the second Sunday of March, 02:00 standard
\* time, to the first Sunday of November, 02:00 daylight time.
UtcOffset(zone, t) ==
  IF zone = "America/Los_Angeles"
  THEN LET start(y) == FirstSundayFrom(DaysFromCivil(y, 3, 8)) * 86400 + 10 * 3600
           end(y)   == FirstSundayFrom(DaysFromCivil(y, 11, 1)) * 86400 + 9 * 3600
           Daylight(y) == start(y) <= t /\ t < end(y)
       IN  IF Daylight(CivilFromDays(t \div 86400).year) THEN -7 * 3600 ELSE -8 * 3600
  ELSE IF zone = "Asia/Tokyo" THEN 9 * 3600
  ELSE 0

\* datetime.datetime.fromtimestamp(t, tz=zone): the wall-clock fields of t
FromTimestamp(t, zone) ==
  LET Fields(date, secs) ==
        [year |-> date.year, month |-> date.month, day |-> date.day,
         hour |-> secs \div 3600, minute |-> (secs % 3600) \div 60]
      WallClock(lt) == Fields(CivilFromDays(lt \div 86400), lt % 86400)
  IN  WallClock(t + UtcOffset(zone, t))

\* strftime("%Y-%m-%d-")
StrftimeDay(dt) ==
  ZeroPad(dt.year, 4) \o <<"-">> \o ZeroPad(dt.month, 2) \o <<"-">>
    \o ZeroPad(dt.day, 2) \o <<"-">>

\* strftime("%Y-%m-%d-%H:%M-")
StrftimeMinute_Colon(dt) ==
  ZeroPad(dt.year, 4) \o <<"-">> \o ZeroPad(dt.month, 2) \o <<"-">>
    \o ZeroPad(dt.day, 2) \o <<"-">>
    \o ZeroPad(dt.hour, 2) \o <<":">> \o ZeroPad(dt.minute, 2) \o <<"-">>

\* strftime("%Y-%m-%d-%H%M-")
StrftimeMinute(dt) ==
  ZeroPad(dt.year, 4) \o <<"-">> \o ZeroPad(dt.month, 2) \o <<"-">>
    \o ZeroPad(dt.day, 2) \o <<"-">>
    \o ZeroPad(dt.hour, 2) \o ZeroPad(dt.minute, 2) \o <<"-">>

(***************************************************************************)
(* Values, outcomes and the world an operation runs in                     *)
(***************************************************************************)

\* Python values: None, a str, a bool, a DirectoryConfig dict
NoneV == [type |-> "None"]

StrV(s) == [type |-> "str", s |-> s]

BoolV(b) == [type |-> "bool", b |-> b]

ConfigV(prefix) == [type |-> "DirectoryConfig", prefix_timestamp |-> prefix]

\* How a call ends: it returns a value, raises an exception, or never ends.
Return(v) == [kind |-> "return", value |-> v]

Raise(e) == [kind |-> "raise", exc |-> e]

Hang == [kind |-> "hang"]

\* One effect of a call on its surroundings, in the order of execution:
\* a call of one of the program's functions, the ancestor search,
\* the parse of a configuration file, os.stat, open/read, os.rename, os.remove.
Event(ev, path, to) == [ev |-> ev, path |-> path, to |-> to]

\* The world: the filesystem, the module's cache, the system's local zone,
\* and the effects logged so far.
World(f, cache, zone) == [fs |-> f, cache |-> cache, zone |-> zone, log |-> <<>>]

Logged(w, ev, path, to) == [w EXCEPT !.log = Append(@, Event(ev, path, to))]

(***************************************************************************)
(* hashlib.md5 and configparser, on the byte contents the model uses       *)
(***************************************************************************)

\* hashlib.md5(content).hexdigest()
Md5HexDigest(content) ==
  CASE content = "" ->
         <<"d","4","1","d","8","c","d","9","8","f","0","0","b","2","0","4",
           "e","9","8","0","0","9","9","8","e","c","f","8","4","2","7","e">>
    [] content = "hello\n" ->
         <<"b","1","9","4","6","a","c","9","2","4","9","2","d","2","3","4",
           "7","c","6","2","3","5","b","4","d","2","6","1","1","1","8","4">>
    [] content = "test content" ->
         <<"9","4","7","3","f","d","d","0","d","8","8","0","a","4","3","c",
           "2","1","b","7","7","7","8","d","3","4","8","7","2","1","5","7">>

IniDay == "[autorename]\nprefix_timestamp = day\n"

IniMinute == "[autorename]\nprefix_timestamp = minute\n"

IniNoSection == "[other]\nprefix_timestamp = day\n"

IniNoKey == "[autorename]\nother = day\n"

IniBadValue == "[autorename]\nprefix_timestamp = hour\n"

\* The option written without any section header before it.
IniNoHeader == "prefix_timestamp = day\n"

\* configparser.ConfigParser().read(file): the <<section, option, value>>
\* triples of the file and its sections, or the error the parser raises (an
\* option line before any section header is a MissingSectionHeaderError,
\* which is a configparser.Error and no ValueError)
ConfigParserRead(content) ==
  CASE content = IniDay ->
         [sections |-> {"autorename"}, error |-> "",
          items |-> {<<"autorename", "prefix_timestamp", "day">>}]
    [] content = IniMinute ->
         [sections |-> {"autorename"}, error |-> "",
          items |-> {<<"autorename", "prefix_timestamp", "minute">>}]
    [] content = IniNoSection ->
         [sections |-> {"other"}, error |-> "",
          items |-> {<<"other", "prefix_timestamp", "day">>}]
    [] content = IniNoKey ->
         [sections |-> {"autorename"}, error |-> "",
          items |-> {<<"autorename", "other", "day">>}]
    [] content = IniBadValue ->
         [sections |-> {"autorename"}, error |-> "",
          items |-> {<<"autorename", "prefix_timestamp", "hour">>}]
    [] content = IniNoHeader ->
         [sections |-> {}, error |-> "MissingSectionHeaderError", items |-> {}]
    [] OTHER -> [sections |-> {}, error |-> "", items |-> {}]

(***************************************************************************)
(* get_directory_config                                                    *)
(***************************************************************************)

\* The while loop of get_directory_config: the first .autorename.ini on the
\* way up from current_dir, stopping when current_dir is "/".  For a
\* relative path the loop arrives at "", whose dirname is "" again: it ends
\* only if the working directory holds a file, and runs forever otherwise.
RECURSIVE FindConfigFile(_, _)
FindConfigFile(f, current_dir) ==
  IF current_dir = Root THEN [kind |-> "none", stop |-> current_dir]
  ELSE IF Exists(f, Join(current_dir, IniName))
       THEN [kind |-> "found", file |-> Join(current_dir, IniName)]
  ELSE IF current_dir = <<>> THEN [kind |-> "hang"]
  ELSE FindConfigFile(f, Dirname(current_dir))

\* The three checks of the parsed file, and the value they let through.
CheckConfig(config) ==
  IF "autorename" \notin config.sections
  THEN Raise("ValueError")
  ELSE IF ~ \E t \in config.items : t[1] = "autorename" /\ t[2] = "prefix_timestamp"
  THEN Raise("ValueError")
  ELSE LET prefix_value == (CHOOSE t \in config.items :
                              t[1] = "autorename" /\ t[2] = "prefix_timestamp")[3]
       IN  IF prefix_value \notin {"minute", "day"}
           THEN Raise("ValueError")
           ELSE Return(ConfigV(prefix_value))

\* config.read(file): a file that cannot be opened (a directory) is skipped
ReadConfigFile(f, file) ==
  IF IsFile(f, file) THEN ConfigParserRead(f[Resolve(file)].content)
  ELSE [sections |-> {}, error |-> "", items |-> {}]

\* target_dir in cached_directory_config
CacheHit_Never(cache, target_dir) == FALSE

CacheHit(cache, target_dir) == target_dir \in DOMAIN cache

\* not os.path.exists(target_dir), without the isdir test
TargetMissing_ExistsOnly(f, target_dir) == ~Exists(f, target_dir)

\* not os.path.exists(target_dir) or not os.path.isdir(target_dir)
TargetMissing(f, target_dir) == ~Exists(f, target_dir) \/ ~IsDir(f, target_dir)

\* The entry stored under the directory the file was found in.
CacheStore_AtFound(cache, target_dir, current_dir, value) ==
  [d \in DOMAIN cache \cup {current_dir} |-> IF d = current_dir THEN value ELSE cache[d]]

\* cached_directory_config[target_dir] = value, at the end of a search that
\* stopped in current_dir
CacheStore(cache, target_dir, current_dir, value) ==
  [d \in DOMAIN cache \cup {target_dir} |-> IF d = target_dir THEN value ELSE cache[d]]

\* get_directory_config(target_dir) in the world w: the world after the call
\* and how the call ended.
GetDirectoryConfig(w, target_dir) ==
  LET w0 == Logged(w, "get_directory_config", target_dir, <<>>)
      \* the end of the call: a check that raised leaves the cache alone
      Store(w2, file, checked) ==
        IF checked.kind = "raise" THEN [w |-> w2, out |-> checked]
        ELSE [w |-> [w2 EXCEPT !.cache =
                       CacheStore(@, target_dir, Dirname(file), checked.value)],
              out |-> checked]
      \* config.read, whose error comes before the three checks
      Checked(config) ==
        IF config.error # "" THEN Raise(config.error) ELSE CheckConfig(config)
      Parse(w2, file) == Store(w2, file, Checked(ReadConfigFile(w2.fs, file)))
      \* after the while loop
      Search(w1, found) ==
        IF found.kind = "hang" THEN [w |-> w1, out |-> Hang]
        ELSE IF found.kind = "none"
        THEN [w |-> [w1 EXCEPT !.cache = CacheStore(@, target_dir, found.stop, NoneV)],
              out |-> Return(NoneV)]
        ELSE Parse(Logged(w1, "parse", found.file, <<>>), found.file)
  IN
  IF CacheHit(w0.cache, target_dir)
  THEN [w |-> w0, out |-> Return(w0.cache[target_dir])]
  ELSE IF TargetMissing(w0.fs, target_dir)
  THEN [w |-> w0, out |-> Return(NoneV)]
  ELSE Search(Logged(w0, "search", target_dir, <<>>), FindConfigFile(w0.fs, target_dir))

(***************************************************************************)
(* generate_filename                                                       *)
(***************************************************************************)

\* The extension loop from the i-th extension on: the first e of EXTENSIONS
\* with filename_lower.endswith("." + e), <<>> for none
RECURSIVE LoopExtension(_, _)
LoopExtension(filename_lower, i) ==
  IF i > Len(EXTENSIONS) THEN <<>>
  ELSE IF EndsWith(filename_lower, <<".">> \o EXTENSIONS[i]) THEN EXTENSIONS[i]
  ELSE LoopExtension(filename_lower, i + 1)

\* The loop's extension, without the manual override.
ClassifyExtension_NoOverride(filename) == LoopExtension(Lower(filename), 1)

\* The extension of the new name: the loop's, then the manual .jpeg override
\* (<<>> stands for extension = None)
ClassifyExtension(filename) ==
  LET filename_lower == Lower(filename)
      extension      == LoopExtension(filename_lower, 1)
  IN  IF EndsWith(filename_lower, <<".">> \o Jpeg) THEN Jpg ELSE extension

\* The day pattern with a dash accepted where the space is to be.
MatchPrefixDay_DashToo(filename) ==
  /\ Len(filename) >= 12
  /\ \A i \in {1, 2, 3, 4, 6, 7} : IsDigit(filename[i])
  /\ filename[5] = "-"
  /\ filename[8] = "-"
  /\ \A i \in {9, 10} : IsNonSpace(filename[i])
  /\ filename[11] \in {" ", "-"}
  /\ IsNonSpace(filename[12])

\* re_prefix_day.match(filename) is not None
\*   \d\d\d\d-\d\d-\S\S[ ]\S+
MatchPrefixDay(filename) ==
  /\ Len(filename) >= 12
  /\ \A i \in {1, 2, 3, 4, 6, 7} : IsDigit(filename[i])
  /\ filename[5] = "-"
  /\ filename[8] = "-"
  /\ \A i \in {9, 10} : IsNonSpace(filename[i])
  /\ filename[11] = " "
  /\ IsNonSpace(filename[12])

\* re_prefix_minute.match(filename) is not None
\*   \d\d\d\d-\d\d-\S\S-\S\S\S\S[ ]\S+
MatchPrefixMinute(filename) ==
  /\ Len(filename) >= 17
  /\ \A i \in {1, 2, 3, 4, 6, 7} : IsDigit(filename[i])
  /\ filename[5] = "-"
  /\ filename[8] = "-"
  /\ \A i \in {9, 10} : IsNonSpace(filename[i])
  /\ filename[11] = "-"
  /\ \A i \in {12, 13, 14, 15} : IsNonSpace(filename[i])
  /\ filename[16] = " "
  /\ IsNonSpace(filename[17])

\* directory_config is not None and directory_config["prefix_timestamp"] == "minute"
IsMinute(directory_config) ==
  /\ directory_config.type = "DirectoryConfig"
  /\ directory_config.prefix_timestamp = "minute"

\* The day pattern whatever the granularity.
HasValidPrefix_DayOnly(directory_config, filename) == MatchPrefixDay(filename)

\* The branch on the granularity that picks the pattern to match.
HasValidPrefix(directory_config, filename) ==
  IF IsMinute(directory_config)
  THEN MatchPrefixMinute(filename)
  ELSE MatchPrefixDay(filename)

\* datetime.datetime.fromtimestamp(mtime_seconds): no zone is passed, so the
\* wall clock is that of the system's local zone
MtimeDatetime(mtime_seconds, zone) == FromTimestamp(mtime_seconds, zone)

\* hash[0:8]
Hash10_Eight(hexdigest) == SubSeq(hexdigest, 1, 8)

\* hash[0:10]
Hash10(hexdigest) == SubSeq(hexdigest, 1, 10)

\* The new filename, from the wall-clock fields, the hash and the extension.
ComposeFilename(directory_config, mtime_datetime, hash, extension) ==
  IF IsMinute(directory_config)
  THEN StrftimeMinute(mtime_datetime) \o hash \o <<".">> \o extension
  ELSE StrftimeDay(mtime_datetime) \o hash \o <<".">> \o extension

\* generate_filename with the modification time read and the content hashed
\* before the extension and the prefix are looked at.
GenerateFilename_HashFirst(w, path, filename) ==
  LET w0       == Logged(w, "generate_filename", Join(path, filename), <<>>)
      filepath == Join(path, filename)
      Decided(w2, node, directory_config, extension) ==
        IF extension = <<>> THEN [w |-> w2, out |-> Return(NoneV)]
        ELSE IF HasValidPrefix(directory_config, filename)
        THEN [w |-> w2, out |-> Return(NoneV)]
        ELSE [w |-> w2,
              out |-> Return(StrV(ComposeFilename(directory_config,
                                                  MtimeDatetime(node.mtime, w2.zone),
                                                  Hash10(Md5HexDigest(node.content)),
                                                  extension)))]
      Configured(looked) ==
        IF looked.out.kind # "return" THEN looked
        ELSE Decided(Logged(Logged(looked.w, "stat", filepath, <<>>), "open", filepath, <<>>),
                     looked.w.fs[Resolve(filepath)], looked.out.value,
                     ClassifyExtension(filename))
  IN
  IF ~Exists(w0.fs, filepath) THEN [w |-> w0, out |-> Raise("AssertionError")]
  ELSE IF ~IsFile(w0.fs, filepath) THEN [w |-> w0, out |-> Raise("AssertionError")]
  ELSE Configured(GetDirectoryConfig(w0, path))

\* generate_filename(path, filename) in the world w
GenerateFilename(w, path, filename) ==
  LET w0       == Logged(w, "generate_filename", Join(path, filename), <<>>)
      filepath == Join(path, filename)
      \* the name, from the file's modification time and content
      NewName(w1, node, directory_config, extension) ==
        [w |-> Logged(w1, "open", filepath, <<>>),
         out |-> Return(StrV(ComposeFilename(directory_config,
                                             MtimeDatetime(node.mtime, w1.zone),
                                             Hash10(Md5HexDigest(node.content)),
                                             extension)))]
      \* after the extension is known
      Prefixed(looked, extension) ==
        IF extension = <<>> THEN [w |-> looked.w, out |-> Return(NoneV)]
        ELSE IF HasValidPrefix(looked.out.value, filename)
        THEN [w |-> looked.w, out |-> Return(NoneV)]
        ELSE NewName(Logged(looked.w, "stat", filepath, <<>>),
                     looked.w.fs[Resolve(filepath)], looked.out.value, extension)
      \* after directory_config = get_directory_config(path)
      Configured(looked) ==
        IF looked.out.kind # "return" THEN looked
        ELSE Prefixed(looked, ClassifyExtension(filename))
  IN
  IF ~Exists(w0.fs, filepath) THEN [w |-> w0, out |-> Raise("AssertionError")]
  ELSE IF ~IsFile(w0.fs, filepath) THEN [w |-> w0, out |-> Raise("AssertionError")]
  ELSE Configured(GetDirectoryConfig(w0, path))

(***************************************************************************)
(* process_file                                                            *)
(***************************************************************************)

\* os.remove(fullpath): a directory is not removed, the call raises
OsRemove(w, fullpath) ==
  LET w0 == Logged(w, "remove", fullpath, <<>>)
  IN  IF IsFile(w0.fs, fullpath)
      THEN [w |-> [w0 EXCEPT !.fs = Remove(@, fullpath)], out |-> Return(NoneV)]
      ELSE [w |-> w0, out |-> Raise("OSError")]

\* os.rename(fullpath, new_fullpath): an existing file of the new name is
\* replaced; a directory of the new name makes the call raise
OsRename(w, fullpath, new_fullpath) ==
  LET w0 == Logged(w, "rename", fullpath, new_fullpath)
  IN  IF IsDir(w0.fs, new_fullpath)
      THEN [w |-> w0, out |-> Raise("OSError")]
      ELSE [w |-> [w0 EXCEPT !.fs = Rename(@, fullpath, new_fullpath)],
            out |-> Return(NoneV)]

\* The .DS_Store branch without the removal.
ProcessDsStore_Dry(w, fullpath, dryrun) == [w |-> w, out |-> Return(BoolV(TRUE))]

\* The .DS_Store branch of process_file.
ProcessDsStore(w, fullpath, dryrun) ==
  IF dryrun THEN [w |-> w, out |-> Return(BoolV(TRUE))]
  ELSE LET removed == OsRemove(w, fullpath)
       IN  IF removed.out.kind = "raise" THEN removed
           ELSE [w |-> removed.w, out |-> Return(BoolV(TRUE))]

\* The rename carried out in dry-run mode as well.
RenameFile_Always(w, path, filename, new_filename, dryrun) ==
  LET renamed == OsRename(w, Join(path, filename), Join(path, new_filename))
  IN  IF renamed.out.kind = "raise" THEN renamed
      ELSE [w |-> renamed.w, out |-> Return(BoolV(TRUE))]

\* The end of process_file: the rename of a file that has a new name.
RenameFile(w, path, filename, new_filename, dryrun) ==
  IF dryrun THEN [w |-> w, out |-> Return(BoolV(TRUE))]
  ELSE LET renamed == OsRename(w, Join(path, filename), Join(path, new_filename))
       IN  IF renamed.out.kind = "raise" THEN renamed
           ELSE [w |-> renamed.w, out |-> Return(BoolV(TRUE))]

\* The check left out: no name counts as already correct.
AlreadyNamed_Never(filename, new_filename) == FALSE

\* filename == new_filename: the file is already named correctly
AlreadyNamed(filename, new_filename) == filename = new_filename

\* process_file(path, filename, dryrun) in the world w
ProcessFile(w, path, filename, dryrun) ==
  LET fullpath == Join(path, filename)
      \* after new_filename = generate_filename(path, filename)
      Named(generated) ==
        IF generated.out.kind # "return" THEN generated
        ELSE IF generated.out.value = NoneV
        THEN [w |-> generated.w, out |-> Return(BoolV(FALSE))]
        ELSE IF AlreadyNamed(filename, generated.out.value.s)
        THEN [w |-> generated.w, out |-> Return(BoolV(FALSE))]
        ELSE RenameFile(generated.w, path, filename, generated.out.value.s, dryrun)
      w0 == Logged(w, "process_file", fullpath, <<>>)
  IN
  IF ~Exists(w0.fs, fullpath) THEN [w |-> w0, out |-> Raise("FileNotFoundError")]
  ELSE IF filename = DS_Store THEN ProcessDsStore(w0, fullpath, dryrun)
  ELSE Named(GenerateFilename(w0, path, filename))

(***************************************************************************)
(* process_directory, traverse and main                                    *)
(***************************************************************************)

\* The characters of the paths, in the order of their codes.
AsciiOrder ==
  <<" ", "-", ".", "/">> \o Digits \o UpperCase \o <<"_">> \o LowerCase

Ord(c) == CHOOSE i \in 1..Len(AsciiOrder) : AsciiOrder[i] = c

\* a < b for two strings
RECURSIVE StrLess(_, _)
StrLess(a, b) ==
  IF b = <<>> THEN FALSE
  ELSE IF a = <<>> THEN TRUE
  ELSE IF a[1] = b[1] THEN StrLess(Tail(a), Tail(b))
  ELSE Ord(a[1]) < Ord(b[1])

RECURSIVE JoinComponents(_)
JoinComponents(cs) ==
  IF cs = <<>> THEN <<>>
  ELSE IF Len(cs) = 1 THEN cs[1]
  ELSE cs[1] \o <<"/">> \o JoinComponents(Tail(cs))

\* The path as the string the program holds.
PathString(p) == IF IsAbs(p) THEN <<"/">> \o JoinComponents(Tail(p)) ELSE JoinComponents(p)

\* list.sort() of a set of strings, given by a key
RECURSIVE SortPaths(_)
SortPaths(S) ==
  IF S = {} THEN <<>>
  ELSE LET m == CHOOSE x \in S :
                  \A y \in S : x = y \/ StrLess(PathString(x), PathString(y))
       IN  <<m>> \o SortPaths(S \ {m})

RECURSIVE Reverse(_)
Reverse(q) == IF q = <<>> THEN <<>> ELSE Append(Reverse(Tail(q)), Head(q))

\* os.listdir(path) as a list.  The order of the entries is not defined: the
\* caller of the model picks ascending or descending names, which are all
\* the orders of a directory of up to two entries.
ListDirOrdered(f, path, descending) ==
  LET Names(sorted) == [i \in 1..Len(sorted) |-> sorted[i][1]]
      Ordered(asc)  == IF descending THEN Reverse(asc) ELSE asc
  IN  Ordered(Names(SortPaths({ <<n>> : n \in ListDir(f, path) })))

\* The entries of the listing that are regular files (filelist).
RECURSIVE RegularFiles(_, _, _)
RegularFiles(f, path, names) ==
  IF names = <<>> THEN <<>>
  ELSE IF IsFile(f, Join(path, Head(names)))
       THEN <<Head(names)>> \o RegularFiles(f, path, Tail(names))
       ELSE RegularFiles(f, path, Tail(names))

\* An exception goes on to the caller even when told not to.
Propagates_Never(out) == FALSE

\* What is not a return leaves the loop and the function: there is no
\* try/except around the calls.
Propagates(out) == out.kind # "return"

\* The loop of process_directory over filelist.
RECURSIVE ProcessFiles(_, _, _, _)
ProcessFiles(w, path, filelist, dryrun) ==
  IF filelist = <<>> THEN [w |-> w, out |-> Return(NoneV)]
  ELSE LET Rest(r) == IF Propagates(r.out) THEN r
                       ELSE ProcessFiles(r.w, path, Tail(filelist), dryrun)
       IN  Rest(ProcessFile(w, path, Head(filelist), dryrun))

\* process_directory(path, dryrun); os.listdir of a regular file raises
ProcessDirectory(w, path, dryrun, descending) ==
  LET w0 == Logged(w, "process_directory", path, <<>>)
  IN
  IF ~Exists(w0.fs, path) THEN [w |-> w0, out |-> Raise("FileNotFoundError")]
  ELSE IF ~IsDir(w0.fs, path) THEN [w |-> w0, out |-> Raise("OSError")]
  ELSE ProcessFiles(w0, path,
                    RegularFiles(w0.fs, path, ListDirOrdered(w0.fs, path, descending)),
                    dryrun)

\* os.walk that yields its top directory only.
WalkDirs_TopOnly(f, target) == {target}

\* The roots os.walk(target) yields: target and every directory below it,
\* each as target joined with the names on the way down.
WalkDirs(f, target) ==
  LET top == Resolve(target)
  IN  { target \o SubSeq(q, Len(top) + 1, Len(q)) :
          q \in { r \in DOMAIN f : /\ f[r].kind = "dir"
                                  /\ Len(r) >= Len(top)
                                  /\ SubSeq(r, 1, Len(top)) = top } }

\* The loop of traverse over all_dirs.
RECURSIVE ProcessDirectories(_, _, _, _)
ProcessDirectories(w, all_dirs, dryrun, descending) ==
  IF all_dirs = <<>> THEN [w |-> w, out |-> Return(NoneV)]
  ELSE LET Rest(r) == IF Propagates(r.out) THEN r
                       ELSE ProcessDirectories(r.w, Tail(all_dirs), dryrun, descending)
       IN  Rest(ProcessDirectory(w, Head(all_dirs), dryrun, descending))

\* traverse(target, dryrun)
Traverse(w, target, dryrun, descending) ==
  LET w0 == Logged(w, "traverse", target, <<>>)
  IN
  IF ~Exists(w0.fs, target) THEN [w |-> w0, out |-> Return(NoneV)]
  ELSE IF IsFile(w0.fs, target)
  THEN LET Done(r) == IF Propagates(r.out) THEN r ELSE [w |-> r.w, out |-> Return(NoneV)]
       IN  Done(ProcessFile(w0, Dirname(target), Basename(target), dryrun))
  ELSE ProcessDirectories(w0, SortPaths(WalkDirs(w0.fs, target)), dryrun, descending)

\* The loop of main over args.target.
RECURSIVE TraverseTargets(_, _, _, _)
TraverseTargets(w, targets, dryrun, descending) ==
  IF targets = <<>> THEN [w |-> w, out |-> Return(NoneV)]
  ELSE LET Rest(r) == IF Propagates(r.out) THEN r
                       ELSE TraverseTargets(r.w, Tail(targets), dryrun, descending)
       IN  Rest(Traverse(w, Head(targets), dryrun, descending))

\* The dryrun parameter when the caller leaves it out, and as given.
DryrunOf(arg) == IF arg = "omitted" THEN TRUE ELSE arg = "True"

\* main with the given targets, with or without --commit
Main(w, commit, targets, descending) ==
  TraverseTargets(w, targets, IF commit THEN FALSE ELSE TRUE, descending)

(***************************************************************************)
(* The filesystems and inputs the model explores                           *)
(***************************************************************************)

\* The number of calls a run makes, at most.
MaxCalls == 3

\* The system zones a run may have: the configured one, and another.
Zones == {"America/Los_Angeles", "UTC"}

\* Modification times: 2010-01-02 11:04:05 UTC (the tests' value), and
\* 2010-07-05 00:30:00 UTC, which is still 2010-07-04 in Los Angeles.
MTimes == {1262430245, 1278289800}

\* File contents: empty, and b"hello\n"
Contents == {"", "hello\n"}

\* The configuration files a directory may hold (one malformed)
InitIniContents == {IniDay, IniMinute, IniBadValue}

PhotoDir == Join(Cwd, <<"d">>)

Gone == Join(Cwd, <<"g","o","n","e">>)

MissingName == <<"m","i","s","s","i","n","g",".","p","n","g">>

\* The names a file of the photo directory may have at the start.
InitNames ==
  { <<"f","i","l","e","n","a","m","e",".","p","n","g">>,
    <<"F","i","l","e",".","P","n","g">>,
    <<"f","i","l","e","n","a","m","e",".","j","p","e","g">>,
    <<"P","h","o","t","o",".","J","P","E","G">>,
    <<"f","i","l","e","n","a","m","e",".","d","a","t">>,
    DS_Store,
    <<"2","0","2","2","-","0","1","-","0","1"," ","f","o","o",".","p","n","g">>,
    <<"2","0","2","2","-","0","1","-","X","X","-","1","2","X","X"," ",
      "f","o","o",".","p","n","g">>,
    <<"2","0","1","0","-","0","1","-","0","2","-",
      "b","1","9","4","6","a","c","9","2","4",".","p","n","g">>,
    <<"2","0","1","0","-","0","1","-","0","2","-","0","3","0","4","-",
      "b","1","9","4","6","a","c","9","2","4",".","p","n","g">> }

\* The names a subdirectory of the photo directory may have at the start.
InitDirNames == { DS_Store, <<"a","l","b","u","m",".","p","n","g">> }

\* The entries the photo directory may hold, as <<path, node>> pairs.
InitEntries ==
  { <<Join(PhotoDir, n), FileNode(m, c)>> : n \in InitNames, m \in MTimes, c \in Contents }
    \cup { <<Join(PhotoDir, n), DirNode>> : n \in InitDirNames }

\* What the photo directory holds at the start: nothing, or one entry.
InitEntrySets == {{}} \cup { {e} : e \in InitEntries }

\* The configuration files at the start: none, or one in the parent of the
\* photo directory.
InitIniSets ==
  {{}} \cup { {<<Join(Cwd, IniName), FileNode(1262430245, c)>>} :
              c \in InitIniContents }

BaseTree == { <<Root, DirNode>>, <<Cwd, DirNode>>, <<PhotoDir, DirNode>> }

\* The filesystem that holds the given <<path, node>> pairs.
MakeFs(pairs) ==
  [p \in {x[1] : x \in pairs} |-> (CHOOSE x \in pairs : x[1] = p)[2]]

\* The directories a caller asks the configuration of.
PathInputs == {PhotoDir, Cwd, Gone}

\* The <<path, filename>> pairs a caller passes: every entry of the photo
\* directory, a name it does not hold, and a name in a directory that does
\* not exist.
FileInputs ==
  { <<PhotoDir, n>> : n \in ListDir(fs, PhotoDir) \cup {MissingName} }
    \cup { <<Gone, MissingName>> }

(***************************************************************************)
(* The state machine: a caller (the command line, a test) makes one call   *)
(* after another; each call runs to its end                                *)
(***************************************************************************)

EmptyCache == [d \in {} |-> NoneV]

NoCall ==
  [op |-> "none", path |-> <<>>, filename |-> <<>>, dryrun |-> TRUE,
   out |-> Return(NoneV), log |-> <<>>]

Init ==
  /\ localzone \in Zones
  /\ \E inis \in InitIniSets, entries \in InitEntrySets :
       fs = MakeFs(BaseTree \cup inis \cup entries)
  /\ cached_directory_config = EmptyCache
  /\ last = NoCall
  /\ committed = {}
  /\ calls = 0

\* The record of a call that ended as r.
CallRecord(op, path, filename, dryrun, r) ==
  [op |-> op, path |-> path, filename |-> filename, dryrun |-> dryrun,
   out |-> r.out, log |-> r.w.log]

\* The paths that a committed rename of process_file gave their name, after
\* a call with the given log.
RECURSIVE CommittedAfter(_, _, _)
CommittedAfter(f, log, done) ==
  IF log = <<>> THEN done \cap DOMAIN f
  ELSE LET e == Head(log)
       IN  CommittedAfter(f, Tail(log),
             IF e.ev = "rename" THEN (done \ {Resolve(e.path)}) \cup {Resolve(e.to)}
             ELSE IF e.ev = "remove" THEN done \ {Resolve(e.path)}
             ELSE done)

\* A call that has not returned keeps the process: nothing follows a hang.
Running == last.out.kind # "hang" /\ calls < MaxCalls

CallProcessFile ==
  /\ Running
  /\ \E target \in FileInputs, dryrun \in BOOLEAN :
       \E r \in {ProcessFile(World(fs, cached_directory_config, localzone),
                              target[1], target[2], dryrun)} :
         /\ fs' = r.w.fs
         /\ cached_directory_config' = r.w.cache
         /\ last' = CallRecord("process_file", target[1], target[2], dryrun, r)
         /\ committed' = CommittedAfter(r.w.fs, r.w.log, committed)
  /\ calls' = calls + 1
  /\ UNCHANGED localzone

CallGenerateFilename ==
  /\ Running
  /\ \E target \in FileInputs :
       \E r \in {GenerateFilename(World(fs, cached_directory_config, localzone),
                                 target[1], target[2])} :
         /\ fs' = r.w.fs
         /\ cached_directory_config' = r.w.cache
         /\ last' = CallRecord("generate_filename", target[1], target[2], TRUE, r)
  /\ calls' = calls + 1
  /\ UNCHANGED <<localzone, committed>>

CallGetDirectoryConfig ==
  /\ Running
  /\ \E target_dir \in PathInputs :
       \E r \in {GetDirectoryConfig(World(fs, cached_directory_config, localzone),
                                   target_dir)} :
           /\ fs' = r.w.fs
           /\ cached_directory_config' = r.w.cache
           /\ last' = CallRecord("get_directory_config", target_dir, <<>>, TRUE, r)
  /\ calls' = calls + 1
  /\ UNCHANGED <<localzone, committed>>

Next ==
  \/ CallProcessFile
  \/ CallGenerateFilename
  \/ CallGetDirectoryConfig

Spec == Init /\ [][Next]_vars

(***************************************************************************)
(* The configuration resolver on its own: a caller asks for the            *)
(* configuration of directories given in several forms, while somebody     *)
(* else edits the configuration files and removes directories              *)
(***************************************************************************)

\* The photo directory as a path relative to the working directory: "d"
RelPhotoDir == << <<"d">> >>

PhotoName == <<"f","i","l","e","n","a","m","e",".","p","n","g">>

OtherName == <<"f","i","l","e","n","a","m","e",".","j","p","e","g">>

\* A regular file, given where a directory is expected.
PhotoFile == Join(PhotoDir, PhotoName)

\* The directories a caller asks the configuration of: absolute, the root,
\* relative, missing, and not a directory.
ResolverPaths == {PhotoDir, Cwd, Root, RelPhotoDir, Gone, PhotoFile}

\* The configuration files at the start: in the root none or a valid one, in
\* the working directory none or any of the six, in the photo directory none
\* or one of three.
ResolverIniSets ==
  { r \cup c \cup d :
      r \in {{}, {<<Join(Root, IniName), FileNode(1262430245, IniMinute)>>}},
      c \in {{}} \cup { {<<Join(Cwd, IniName), FileNode(1262430245, x)>>} :
                         x \in {IniDay, IniMinute, IniNoSection, IniNoKey,
                                IniBadValue, IniNoHeader} },
      d \in {{}} \cup { {<<Join(PhotoDir, IniName), FileNode(1262430245, x)>>} :
                         x \in {IniDay, IniMinute, IniNoKey} } }

ResolverFiles ==
  { <<Join(PhotoDir, PhotoName), FileNode(1262430245, "")>>,
    <<Join(PhotoDir, OtherName), FileNode(1262430245, "")>> }

InitResolver ==
  /\ localzone = TIMEZONE
  /\ \E inis \in ResolverIniSets : fs = MakeFs(BaseTree \cup ResolverFiles \cup inis)
  /\ cached_directory_config = EmptyCache
  /\ last = NoCall
  /\ committed = {}
  /\ calls = 0

\* What a step of the environment leaves in last.
EnvRecord(op, path) ==
  [op |-> op, path |-> path, filename |-> <<>>, dryrun |-> TRUE,
   out |-> Return(NoneV), log |-> <<>>]

\* The filesystem without the directory p and everything below it.
RemoveTree(f, p) ==
  [q \in { r \in DOMAIN f : ~(Len(r) >= Len(p) /\ SubSeq(r, 1, Len(p)) = p) } |-> f[q]]

\* A caller asks for the configuration of a directory.
ResolveDirectory ==
  /\ Running
  /\ \E target_dir \in ResolverPaths :
       \E r \in {GetDirectoryConfig(World(fs, cached_directory_config, localzone),
                                   target_dir)} :
           /\ fs' = r.w.fs
           /\ cached_directory_config' = r.w.cache
           /\ last' = CallRecord("get_directory_config", target_dir, <<>>, TRUE, r)
  /\ calls' = calls + 1
  /\ UNCHANGED <<localzone, committed>>

\* A caller asks for the new name of a file of the photo directory.
DecideFile ==
  /\ Running
  /\ \E path \in {PhotoDir}, filename \in {PhotoName, OtherName} :
       \E r \in {GenerateFilename(World(fs, cached_directory_config, localzone),
                                 path, filename)} :
         /\ fs' = r.w.fs
         /\ cached_directory_config' = r.w.cache
         /\ last' = CallRecord("generate_filename", path, filename, TRUE, r)
  /\ calls' = calls + 1
  /\ UNCHANGED <<localzone, committed>>

\* Somebody writes a valid configuration file into a directory.
EnvWriteConfig ==
  /\ Running
  /\ \E dir \in {Cwd, PhotoDir}, content \in {IniDay, IniMinute} :
       /\ IsDir(fs, dir)
       /\ content # (IF IsFile(fs, Join(dir, IniName))
                      THEN fs[Join(dir, IniName)].content ELSE "")
       /\ fs' = [q \in DOMAIN fs \cup {Join(dir, IniName)} |->
                   IF q = Join(dir, IniName) THEN FileNode(1262430245, content) ELSE fs[q]]
       /\ last' = EnvRecord("write_config", dir)
  /\ calls' = calls + 1
  /\ UNCHANGED <<cached_directory_config, localzone, committed>>

\* Somebody deletes a configuration file.
EnvDeleteConfig ==
  /\ Running
  /\ \E dir \in {Cwd, PhotoDir} :
       /\ IsFile(fs, Join(dir, IniName))
       /\ fs' = Remove(fs, Join(dir, IniName))
       /\ last' = EnvRecord("delete_config", dir)
  /\ calls' = calls + 1
  /\ UNCHANGED <<cached_directory_config, localzone, committed>>

\* Somebody removes the photo directory and what it holds.
EnvRemoveDirectory ==
  /\ Running
  /\ IsDir(fs, PhotoDir)
  /\ fs' = RemoveTree(fs, PhotoDir)
  /\ last' = EnvRecord("remove_directory", PhotoDir)
  /\ calls' = calls + 1
  /\ UNCHANGED <<cached_directory_config, localzone, committed>>

NextResolver ==
  \/ ResolveDirectory
  \/ DecideFile
  \/ EnvWriteConfig
  \/ EnvDeleteConfig
  \/ EnvRemoveDirectory

SpecResolver == InitResolver /\ [][NextResolver]_vars

(***************************************************************************)
(* Whole runs: a caller runs process_file, process_directory, traverse or  *)
(* main over a small tree, in dry-run or in commit mode                    *)
(***************************************************************************)

\* The number of runs a caller makes, at most.
MaxRuns == 2

SubDir == Join(PhotoDir, <<"s","u","b">>)

\* The name generate_filename gives filename.png, an empty file of
\* 2010-01-02, on a system in TIMEZONE.
StaleName ==
  <<"2","0","1","0","-","0","1","-","0","2","-",
    "d","4","1","d","8","c","d","9","8","f",".","p","n","g">>

\* What the photo directory may hold next to filename.png: nothing, a
\* .DS_Store, a file of an unsupported extension, a second picture of the
\* same content and time, or a picture of another content that bears the
\* name filename.png is to get.
RunExtras ==
  {{}} \cup { {<<Join(PhotoDir, n), FileNode(1262430245, "")>>} :
              n \in { DS_Store,
                      <<"f","i","l","e","n","a","m","e",".","d","a","t">>,
                      <<"F","i","l","e",".","P","n","g">> } }
       \cup { {<<Join(PhotoDir, StaleName), FileNode(1262430245, "hello\n")>>} }

\* The configuration files of the tree: none, or one in the parent of the
\* photo directory (valid or malformed), and none or a malformed one in the
\* subdirectory.
RunIniSets ==
  { c \cup d :
      c \in {{}} \cup { {<<Join(Cwd, IniName), FileNode(1262430245, x)>>} :
                         x \in {IniMinute, IniBadValue} },
      d \in {{}, {<<Join(SubDir, IniName), FileNode(1262430245, IniBadValue)>>}} }

\* A picture of the working directory, given by its bare name: "filename.png"
RelFile == <<PhotoName>>

RunTree ==
  BaseTree \cup { <<SubDir, DirNode>>,
                  <<Resolve(RelFile), FileNode(1262430245, "")>>,
                  <<Join(PhotoDir, PhotoName), FileNode(1262430245, "")>>,
                  <<Join(SubDir, OtherName), FileNode(1278289800, "hello\n")>> }

InitRuns ==
  /\ localzone = TIMEZONE
  /\ \E inis \in RunIniSets, extras \in RunExtras :
       fs = MakeFs(RunTree \cup inis \cup extras)
  /\ cached_directory_config = EmptyCache
  /\ last = NoCall
  /\ committed = {}
  /\ calls = 0

\* The forms of the dryrun argument: left out, True, False.
DryrunArgs == {"omitted", "True", "False"}

\* What a run leaves in last: the call, the dryrun argument as written and
\* as it took effect, how the run ended and what it did.
RunRecord(op, path, filename, arg, dryrun, r) ==
  [op |-> op, path |-> path, filename |-> filename, arg |-> arg,
   dryrun |-> dryrun, out |-> r.out, log |-> r.w.log]

MoreRuns == last.out.kind # "hang" /\ calls < MaxRuns

RunProcessFile ==
  /\ MoreRuns
  /\ \E filename \in {PhotoName, DS_Store}, arg \in DryrunArgs :
       \E r \in {ProcessFile(World(fs, cached_directory_config, localzone),
                              PhotoDir, filename, DryrunOf(arg))} :
         /\ fs' = r.w.fs
         /\ cached_directory_config' = r.w.cache
         /\ last' = RunRecord("process_file", PhotoDir, filename, arg, DryrunOf(arg), r)
         /\ committed' = CommittedAfter(r.w.fs, r.w.log, committed)
  /\ calls' = calls + 1
  /\ UNCHANGED localzone

RunProcessDirectory ==
  /\ MoreRuns
  /\ \E path \in {PhotoDir, SubDir, Gone}, arg \in DryrunArgs, descending \in BOOLEAN :
       \E r \in {ProcessDirectory(World(fs, cached_directory_config, localzone),
                                   path, DryrunOf(arg), descending)} :
         /\ fs' = r.w.fs
         /\ cached_directory_config' = r.w.cache
         /\ last' = RunRecord("process_directory", path, <<>>, arg, DryrunOf(arg), r)
         /\ committed' = CommittedAfter(r.w.fs, r.w.log, committed)
  /\ calls' = calls + 1
  /\ UNCHANGED localzone

RunTraverse ==
  /\ MoreRuns
  /\ \E target \in {PhotoDir, PhotoFile, RelFile, Gone},
        arg \in DryrunArgs, descending \in BOOLEAN :
       \E r \in {Traverse(World(fs, cached_directory_config, localzone),
                           target, DryrunOf(arg), descending)} :
         /\ fs' = r.w.fs
         /\ cached_directory_config' = r.w.cache
         /\ last' = RunRecord("traverse", target, <<>>, arg, DryrunOf(arg), r)
         /\ committed' = CommittedAfter(r.w.fs, r.w.log, committed)
  /\ calls' = calls + 1
  /\ UNCHANGED localzone

\* The target lists of a command line.
MainTargets == { <<PhotoDir>>, <<PhotoFile, SubDir>>, <<Gone, PhotoDir>> }

RunMain ==
  /\ MoreRuns
  /\ \E targets \in MainTargets, commit \in BOOLEAN, descending \in BOOLEAN :
       \E r \in {Main(World(fs, cached_directory_config, localzone),
                       commit, targets, descending)} :
         /\ fs' = r.w.fs
         /\ cached_directory_config' = r.w.cache
         /\ last' = RunRecord("main", Head(targets), <<>>,
                              IF commit THEN "--commit" ELSE "omitted", ~commit, r)
         /\ committed' = CommittedAfter(r.w.fs, r.w.log, committed)
  /\ calls' = calls + 1
  /\ UNCHANGED localzone

NextRuns ==
  \/ RunProcessFile
  \/ RunProcessDirectory
  \/ RunTraverse
  \/ RunMain

SpecRuns == InitRuns /\ [][NextRuns]_vars

(***************************************************************************)
(* What the properties below speak of                                      *)
(***************************************************************************)

\* The path of the file the last call was about.
LastFullPath == Join(last.path, last.filename)

\* The last call logged an effect of the given kind.
LastDid(ev) == \E i \in DOMAIN last.log : last.log[i].ev = ev

\* The step is a call (of the given operation) that ran to its end.
IsCall(op) == calls' = calls + 1 /\ last'.op = op

\* The granularity a directory's cached configuration stands for: minute
\* for a minute configuration, day for a day configuration and for None.
Granularity(cache, dir) ==
  IF dir \in DOMAIN cache /\ cache[dir] = ConfigV("minute") THEN "minute" ELSE "day"

\* The name ends in a dot and the given extension, in any letter case.
HasExtension(name, e) ==
  /\ Len(name) > Len(e)
  /\ name[Len(name) - Len(e)] = "."
  /\ \A i \in 1..Len(e) :
       LET c == name[Len(name) - Len(e) + i]
       IN  c = e[i] \/ \E k \in 1..26 : c = UpperCase[k] /\ e[i] = LowerCase[k]

\* The name has one of the recognised extensions, in any letter case.
Supported(name) == \E i \in 1..Len(EXTENSIONS) : HasExtension(name, EXTENSIONS[i])

(***************************************************************************)
(* C1  Idempotence over two passes                                         *)
(***************************************************************************)

\* C1: once process_file has committed a rename, a later call on the renamed
\* file (same mtime, content and configuration) changes nothing: process_file
\* returns False, issues no rename and leaves the filesystem as it is, in
\* dry-run and in commit mode, and generate_filename returns the file's own
\* name.
C1_SecondPassChangesNothing ==
  [][ /\ (IsCall("process_file") /\ Resolve(Join(last'.path, last'.filename)) \in committed)
         => /\ last'.out = Return(BoolV(FALSE))
            /\ \A i \in DOMAIN last'.log : last'.log[i].ev \notin {"rename", "remove"}
            /\ fs' = fs
      /\ (IsCall("generate_filename") /\ Resolve(Join(last'.path, last'.filename)) \in committed)
         => /\ last'.out = Return(StrV(last'.filename))
            /\ fs' = fs
    ]_vars

\* C1 witness: a second pass in commit mode over a file that a committed
\* rename named, which returned False.
C1_Witness ==
  /\ last.op = "process_file"
  /\ ~last.dryrun
  /\ Resolve(LastFullPath) \in committed
  /\ last.out = Return(BoolV(FALSE))
  /\ IsFile(fs, LastFullPath)

(***************************************************************************)
(* C2  Prefix trust                                                        *)
(***************************************************************************)

\* The name starts with four digits, a dash, two digits, a dash and two
\* non-space characters.
C2_DatePart(name) ==
  /\ Len(name) >= 10
  /\ \A i \in {1, 2, 3, 4, 6, 7} : name[i] \in {"0","1","2","3","4","5","6","7","8","9"}
  /\ name[5] = "-" /\ name[8] = "-"
  /\ name[9] \notin WhiteSpace /\ name[10] \notin WhiteSpace

\* The prefix pattern of a granularity, as the specification words it.
C2_Matches(g, name) ==
  /\ C2_DatePart(name)
  /\ IF g = "minute"
     THEN /\ Len(name) >= 17
          /\ name[11] = "-"
          /\ \A i \in 12..15 : name[i] \notin WhiteSpace
          /\ name[16] = " "
          /\ name[17] \notin WhiteSpace
     ELSE /\ Len(name) >= 12
          /\ name[11] = " "
          /\ name[12] \notin WhiteSpace

\* C2: a regular file with a supported extension whose name matches the
\* prefix pattern of the granularity resolved for its directory is never
\* renamed, whatever its mtime and content: generate_filename returns None,
\* process_file returns False, no rename is issued and the filesystem is as
\* before.
C2_PrefixTrust ==
  [][ \A op \in {"process_file", "generate_filename"} :
        ( /\ IsCall(op)
          /\ IsFile(fs, Join(last'.path, last'.filename))
          /\ Supported(last'.filename)
          /\ last'.path \in DOMAIN cached_directory_config'
          /\ C2_Matches(Granularity(cached_directory_config', last'.path), last'.filename) )
        => /\ fs' = fs
           /\ \A i \in DOMAIN last'.log : last'.log[i].ev # "rename"
           /\ last'.out = Return(IF op = "process_file" THEN BoolV(FALSE) ELSE NoneV)
    ]_vars

\* C2 witness: process_file in commit mode, under minute granularity, left a
\* file alone whose name matches the minute pattern and holds no hash.
C2_Witness ==
  /\ last.op = "process_file"
  /\ ~last.dryrun
  /\ IsFile(fs, LastFullPath)
  /\ Supported(last.filename)
  /\ last.path \in DOMAIN cached_directory_config
  /\ cached_directory_config[last.path] = ConfigV("minute")
  /\ C2_Matches("minute", last.filename)
  /\ last.out = Return(BoolV(FALSE))

(***************************************************************************)
(* C3  Time-zone independence                                              *)
(***************************************************************************)

\* C3: a name generate_filename returns starts with the date of the file's
\* mtime in TIMEZONE, and is the name the same call returns on a system of
\* any other local zone.
C3_NameIsZoneIndependent ==
  (last.op = "generate_filename" /\ last.out.kind = "return"
     /\ last.out.value.type = "str")
  => /\ SubSeq(last.out.value.s, 1, 11)
          = StrftimeDay(FromTimestamp(fs[Resolve(LastFullPath)].mtime, TIMEZONE))
     /\ \A z \in Zones :
          GenerateFilename(World(fs, cached_directory_config, z),
                           last.path, last.filename).out = last.out

(***************************************************************************)
(* C4  Composition                                                         *)
(***************************************************************************)

\* The canonical extension of a name with a supported extension.
CanonicalExtension(name) ==
  LET e == EXTENSIONS[CHOOSE i \in 1..Len(EXTENSIONS) : HasExtension(name, EXTENSIONS[i])]
  IN  IF e = Jpeg THEN Jpg ELSE e

\* s is made of decimal digits.
AllDigits(s) == \A i \in DOMAIN s : s[i] \in {"0","1","2","3","4","5","6","7","8","9"}

\* name starts with YYYY-MM-DD, the calendar day of the instant t in the zone.
IsDateOf(name, t, zone) ==
  /\ Len(name) >= 10
  /\ AllDigits(SubSeq(name, 1, 4)) /\ name[5] = "-"
  /\ AllDigits(SubSeq(name, 6, 7)) /\ name[8] = "-"
  /\ AllDigits(SubSeq(name, 9, 10))
  /\ LET midnight == 86400 * DaysFromCivil(DigitsValue(SubSeq(name, 1, 4)),
                                           DigitsValue(SubSeq(name, 6, 7)),
                                           DigitsValue(SubSeq(name, 9, 10)))
         wall     == t + UtcOffset(zone, t)
     IN  /\ DigitsValue(SubSeq(name, 6, 7)) \in 1..12
         /\ DigitsValue(SubSeq(name, 9, 10)) \in 1..31
         /\ midnight <= wall /\ wall < midnight + 86400

\* name[12..15] is HHMM, the minute of the day of the instant t in the zone.
IsMinuteOf(name, t, zone) ==
  /\ Len(name) >= 15
  /\ AllDigits(SubSeq(name, 12, 15))
  /\ LET start == 3600 * DigitsValue(SubSeq(name, 12, 13))
                    + 60 * DigitsValue(SubSeq(name, 14, 15))
         wall  == (t + UtcOffset(zone, t)) % 86400
     IN  /\ DigitsValue(SubSeq(name, 12, 13)) \in 0..23
         /\ DigitsValue(SubSeq(name, 14, 15)) \in 0..59
         /\ start <= wall /\ wall < start + 60

\* name is <date-prefix>-<hash10>.<ext> for the granularity g, the node of
\* the file and the extension, the date being read in the zone.
IsCanonicalName(name, g, node, ext, zone) ==
  LET pre == IF g = "minute" THEN 16 ELSE 11
  IN  /\ Len(name) = pre + 10 + 1 + Len(ext)
      /\ IsDateOf(name, node.mtime, zone)
      /\ g = "minute" => (name[11] = "-" /\ IsMinuteOf(name, node.mtime, zone))
      /\ name[pre] = "-"
      /\ \A i \in 1..10 : name[pre + i] = Md5HexDigest(node.content)[i]
      /\ name[pre + 11] = "."
      /\ SubSeq(name, pre + 12, Len(name)) = ext

\* C4: for a regular file with a supported extension whose name does not
\* match the prefix pattern of the granularity resolved for its directory,
\* generate_filename returns <date-prefix>-<hash10>.<ext>: hash10 the first
\* ten hex characters of the content's digest, ext the canonical lower-case
\* extension, the date prefix YYYY-MM-DD under no or a day configuration and
\* YYYY-MM-DD-HHMM under a minute configuration (mtime's wall clock on the
\* system that runs the call).
C4_Composition ==
  ( /\ last.op = "generate_filename"
    /\ IsFile(fs, LastFullPath)
    /\ Supported(last.filename)
    /\ last.path \in DOMAIN cached_directory_config
    /\ ~C2_Matches(Granularity(cached_directory_config, last.path), last.filename) )
  => /\ last.out.kind = "return"
     /\ last.out.value.type = "str"
     /\ IsCanonicalName(last.out.value.s,
                        Granularity(cached_directory_config, last.path),
                        fs[Resolve(LastFullPath)],
                        CanonicalExtension(last.filename),
                        localzone)

\* C4 witness: generate_filename composed a name with a minute prefix for a
\* file of non-empty content.
C4_Witness ==
  /\ last.op = "generate_filename"
  /\ IsFile(fs, LastFullPath)
  /\ fs[Resolve(LastFullPath)].content = "hello\n"
  /\ last.path \in DOMAIN cached_directory_config
  /\ cached_directory_config[last.path] = ConfigV("minute")
  /\ last.out.kind = "return"
  /\ last.out.value.type = "str"
  /\ Len(last.out.value.s) = 16 + 10 + 1 + Len(CanonicalExtension(last.filename))

(***************************************************************************)
(* C5  Granularity switch                                                  *)
(***************************************************************************)

\* How generate_filename ends for a file of the photo directory when the
\* directory's configuration is the given one.
OutcomeUnder(directory_config, filename) ==
  GenerateFilename(World(fs, (PhotoDir :> directory_config), localzone),
                   PhotoDir, filename).out

IsName(out) == out.kind = "return" /\ out.value.type = "str"

\* C5: for every file, the name produced under minute granularity is the
\* name produced under day granularity (which is also the name produced
\* under no configuration) with a dash and four digits put in after the
\* date: taking these five characters out gives the day name.
C5_GranularitySwitch ==
  \A n \in ListDir(fs, PhotoDir) :
    IsFile(fs, Join(PhotoDir, n)) =>
      LET day    == OutcomeUnder(ConfigV("day"), n)
          minute == OutcomeUnder(ConfigV("minute"), n)
      IN  /\ OutcomeUnder(NoneV, n) = day
          /\ (IsName(day) /\ IsName(minute)) =>
               /\ Len(minute.value.s) = Len(day.value.s) + 5
               /\ minute.value.s[11] = "-"
               /\ AllDigits(SubSeq(minute.value.s, 12, 15))
               /\ SubSeq(minute.value.s, 1, 10)
                    \o SubSeq(minute.value.s, 16, Len(minute.value.s)) = day.value.s

\* C5 witness: generate_filename returned the minute name of a file that
\* also has a day name.
C5_Witness ==
  /\ last.op = "generate_filename"
  /\ last.path = PhotoDir
  /\ IsFile(fs, LastFullPath)
  /\ IsName(OutcomeUnder(ConfigV("day"), last.filename))
  /\ IsName(last.out)
  /\ last.out = OutcomeUnder(ConfigV("minute"), last.filename)
  /\ last.out # OutcomeUnder(ConfigV("day"), last.filename)

(***************************************************************************)
(* C6  jpeg normalization                                                  *)
(***************************************************************************)

\* C6: no name generate_filename returns ends in ".jpeg", and the name it
\* returns for a file whose name ends in ".jpeg" in any letter case ends in
\* ".jpg".
C6_JpegNormalization ==
  (last.op = "generate_filename" /\ IsName(last.out)) =>
     /\ ~HasExtension(last.out.value.s, Jpeg)
     /\ HasExtension(last.filename, Jpeg) =>
          SubSeq(last.out.value.s, Len(last.out.value.s) - 3, Len(last.out.value.s))
            = <<".", "j", "p", "g">>

\* C6 witness: generate_filename returned a name for a file whose name ends
\* in ".JPEG".
C6_Witness ==
  /\ last.op = "generate_filename"
  /\ IsName(last.out)
  /\ SubSeq(last.filename, Len(last.filename) - 4, Len(last.filename))
       = <<".", "J", "P", "E", "G">>
  /\ SubSeq(last.out.value.s, Len(last.out.value.s) - 3, Len(last.out.value.s))
       = <<".", "j", "p", "g">>

(***************************************************************************)
(* C7  Extension case-insensitivity                                        *)
(***************************************************************************)

\* The name with its last k characters in upper case.
ExtUpper(name, k) ==
  [i \in 1..Len(name) |->
     IF i > Len(name) - k /\ \E j \in 1..26 : LowerCase[j] = name[i]
     THEN UpperCase[CHOOSE j \in 1..26 : LowerCase[j] = name[i]]
     ELSE name[i]]

\* The name with its last k characters in lower case.
ExtLower(name, k) ==
  [i \in 1..Len(name) |->
     IF i > Len(name) - k /\ \E j \in 1..26 : UpperCase[j] = name[i]
     THEN LowerCase[CHOOSE j \in 1..26 : UpperCase[j] = name[i]]
     ELSE name[i]]

\* The length of the recognised extension of a name.
ExtLen(name) ==
  Len(EXTENSIONS[CHOOSE i \in 1..Len(EXTENSIONS) : HasExtension(name, EXTENSIONS[i])])

\* C7: the classification of a name with a recognised extension is that of
\* the same name with the extension in upper case and in lower case, and is
\* the canonical lower-case extension; a name generate_filename returns ends
\* in a dot and that lower-case extension.
C7_ExtensionCaseInsensitive ==
  /\ \A n \in ListDir(fs, PhotoDir) :
       Supported(n) =>
         /\ ClassifyExtension(n) = CanonicalExtension(n)
         /\ ClassifyExtension(ExtUpper(n, ExtLen(n))) = CanonicalExtension(n)
         /\ ClassifyExtension(ExtLower(n, ExtLen(n))) = CanonicalExtension(n)
  /\ (last.op = "generate_filename" /\ IsName(last.out)) =>
       LET ext  == CanonicalExtension(last.filename)
           name == last.out.value.s
       IN  /\ Len(name) > Len(ext) + 1
           /\ SubSeq(name, Len(name) - Len(ext), Len(name)) = <<".">> \o ext

\* C7 witness: generate_filename returned a name ending in ".png" for a file
\* whose extension is written "Png".
C7_Witness ==
  /\ last.op = "generate_filename"
  /\ IsName(last.out)
  /\ SubSeq(last.filename, Len(last.filename) - 3, Len(last.filename))
       = <<".", "P", "n", "g">>
  /\ SubSeq(last.out.value.s, Len(last.out.value.s) - 3, Len(last.out.value.s))
       = <<".", "p", "n", "g">>

(***************************************************************************)
(* C8  Unsupported extension                                               *)
(***************************************************************************)

\* C8: for every regular file with none of the recognised extensions (the
\* special file .DS_Store set aside), under any configuration of its
\* directory, generate_filename returns None, process_file returns False
\* and issues no rename, no error is raised and the filesystem is as before.
C8_UnsupportedIsNoAction ==
  [][ \A op \in {"process_file", "generate_filename"} :
        ( /\ IsCall(op)
          /\ IsFile(fs, Join(last'.path, last'.filename))
          /\ last'.filename # DS_Store
          /\ ~Supported(last'.filename) )
        => /\ last'.out = Return(IF op = "process_file" THEN BoolV(FALSE) ELSE NoneV)
           /\ \A i \in DOMAIN last'.log : last'.log[i].ev # "rename"
           /\ fs' = fs
    ]_vars

(***************************************************************************)
(* C9  Special-file override                                               *)
(***************************************************************************)

\* C9: process_file on an existing file named .DS_Store returns True
\* whatever the configuration of its directory, calls neither
\* generate_filename nor get_directory_config (the configuration cache is
\* as before), never renames; in commit mode it removes that path and
\* nothing else, in dry-run mode the filesystem is as before.
C9_SpecialFileOverride ==
  [][ ( /\ IsCall("process_file")
        /\ last'.filename = DS_Store
        /\ IsFile(fs, Join(last'.path, last'.filename)) )
      => LET p == Resolve(Join(last'.path, last'.filename))
         IN  /\ last'.out = Return(BoolV(TRUE))
             /\ \A i \in DOMAIN last'.log :
                  last'.log[i].ev \notin {"generate_filename", "get_directory_config",
                                          "search", "parse", "stat", "open", "rename"}
             /\ cached_directory_config' = cached_directory_config
             /\ IF last'.dryrun
                THEN fs' = fs
                ELSE /\ DOMAIN fs' = DOMAIN fs \ {p}
                     /\ \A q \in DOMAIN fs' : fs'[q] = fs[q]
    ]_vars

\* C9 witness: process_file in commit mode removed a .DS_Store file of a
\* directory whose configuration file is malformed.
C9_Witness ==
  /\ last.op = "process_file"
  /\ ~last.dryrun
  /\ last.filename = DS_Store
  /\ last.out = Return(BoolV(TRUE))
  /\ LastDid("remove")
  /\ ~Exists(fs, LastFullPath)
  /\ IsFile(fs, Join(Cwd, IniName))
  /\ fs[Resolve(Join(Cwd, IniName))].content = IniBadValue

(***************************************************************************)
(* C10  Existence check                                                    *)
(***************************************************************************)

\* C10: when directory/filename does not exist, or exists and is not a
\* regular file, process_file and generate_filename end with an error
\* (FileNotFoundError or an assertion failure), before any configuration
\* lookup, file read, rename or removal: the filesystem and the
\* configuration cache are as before.
C10_ExistenceCheck ==
  [][ \A op \in {"process_file", "generate_filename"} :
        (IsCall(op) /\ ~IsFile(fs, Join(last'.path, last'.filename)))
        => /\ last'.out \in {Raise("FileNotFoundError"), Raise("AssertionError")}
           /\ \A i \in DOMAIN last'.log :
                last'.log[i].ev \notin {"get_directory_config", "search", "parse",
                                        "stat", "open", "rename", "remove"}
           /\ fs' = fs
           /\ cached_directory_config' = cached_directory_config
    ]_vars

(***************************************************************************)
(* C11  Malformed configuration                                            *)
(***************************************************************************)

\* The configuration file get_directory_config finds for a directory of
\* the tree given as an absolute path: the nearest one on the way up.
RECURSIVE NearestConfigFile(_, _)
NearestConfigFile(f, dir) ==
  IF Join(dir, IniName) \in DOMAIN f THEN Join(dir, IniName)
  ELSE IF dir = Root THEN <<>>
  ELSE NearestConfigFile(f, SubSeq(dir, 1, Len(dir) - 1))

\* The content lacks the autorename section, lacks the prefix_timestamp key
\* or gives it another value than day or minute.
IsMalformed(content) == content \in {IniNoSection, IniNoKey, IniBadValue, IniNoHeader}

\* C11: a get_directory_config call that misses the cache, for an existing
\* directory whose nearest configuration file is malformed, ends with a
\* ValueError and returns neither None nor a granularity.
C11_MalformedIsValueError ==
  [][ ( /\ IsCall("get_directory_config")
        /\ last'.path \in {PhotoDir, Cwd}
        /\ last'.path \notin DOMAIN cached_directory_config
        /\ IsDir(fs, last'.path)
        /\ NearestConfigFile(fs, last'.path) # <<>>
        /\ IsMalformed(fs[NearestConfigFile(fs, last'.path)].content) )
      => last'.out = Raise("ValueError")
    ]_vars

(***************************************************************************)
(* C12  Nearest-ancestor resolution                                        *)
(***************************************************************************)

\* The granularity a valid configuration file sets.
ConfigOf(content) == ConfigV(IF content = IniMinute THEN "minute" ELSE "day")

\* C12: a get_directory_config call that misses the cache, for an existing
\* directory, returns the configuration of the nearest configuration file
\* on the way up from the directory (its own file if it has one, otherwise
\* that of the closest ancestor that has one) when that file is valid.
C12_NearestAncestor ==
  [][ ( /\ IsCall("get_directory_config")
        /\ last'.path \in {PhotoDir, RelPhotoDir, Cwd, Root}
        /\ last'.path \notin DOMAIN cached_directory_config
        /\ IsDir(fs, last'.path)
        /\ NearestConfigFile(fs, Resolve(last'.path)) # <<>>
        /\ fs[NearestConfigFile(fs, Resolve(last'.path))].content \in {IniDay, IniMinute} )
      => last'.out = Return(ConfigOf(fs[NearestConfigFile(fs, Resolve(last'.path))].content))
    ]_vars

(***************************************************************************)
(* C13  Cache keying                                                       *)
(***************************************************************************)

\* C13: a get_directory_config call that returns for an existing directory
\* leaves the cache with an entry under the queried path, as it was given,
\* holding the value returned; no other key is added (the directory where
\* the file was found gets none) and every other entry is as before.
C13_CacheKeying ==
  [][ ( /\ IsCall("get_directory_config")
        /\ last'.out.kind = "return"
        /\ IsDir(fs, last'.path) )
      => /\ DOMAIN cached_directory_config' = DOMAIN cached_directory_config \cup {last'.path}
         /\ cached_directory_config'[last'.path] = last'.out.value
         /\ \A k \in DOMAIN cached_directory_config :
              cached_directory_config'[k] = cached_directory_config[k]
    ]_vars

\* C13 witness: the configuration of the photo directory was found in the
\* file of its parent and cached under the photo directory only.
C13_Witness ==
  /\ last.op = "get_directory_config"
  /\ last.path = PhotoDir
  /\ last.out = Return(ConfigV("minute"))
  /\ \E i \in DOMAIN last.log :
       last.log[i].ev = "parse" /\ last.log[i].path = Join(Cwd, IniName)
  /\ DOMAIN cached_directory_config = {PhotoDir}
  /\ cached_directory_config[PhotoDir] = ConfigV("minute")

(***************************************************************************)
(* C14  Cache lifetime                                                     *)
(***************************************************************************)

\* C14: a get_directory_config call for a path that has a cache entry
\* returns the cached value without searching or parsing, whatever the
\* configuration files now say; and no step, of the program or of anybody
\* else, changes or drops an entry the cache holds.
C14_CacheLifetime ==
  [][ /\ ( IsCall("get_directory_config") /\ last'.path \in DOMAIN cached_directory_config )
         => /\ last'.out = Return(cached_directory_config[last'.path])
            /\ \A i \in DOMAIN last'.log : last'.log[i].ev \notin {"search", "parse"}
      /\ \A k \in DOMAIN cached_directory_config :
           /\ k \in DOMAIN cached_directory_config'
           /\ cached_directory_config'[k] = cached_directory_config[k]
    ]_vars

\* C14 witness: the photo directory resolved to minute, a day configuration
\* file was then written into it, and a later call still returned minute.
C14_Witness ==
  /\ last.op = "get_directory_config"
  /\ last.path = PhotoDir
  /\ last.out = Return(ConfigV("minute"))
  /\ ~LastDid("search")
  /\ IsFile(fs, Join(PhotoDir, IniName))
  /\ fs[Join(PhotoDir, IniName)].content = IniDay

(***************************************************************************)
(* C15  Non-existent directory                                             *)
(***************************************************************************)

\* C15 as stated: a get_directory_config call for a path that does not
\* exist or is not a directory at the time of the call returns None, in
\* every state of the cache.
C15_MissingIsNone ==
  [][ ( IsCall("get_directory_config") /\ ~IsDir(fs, last'.path) )
      => last'.out = Return(NoneV)
    ]_vars

\* C15 amended: a get_directory_config call for a path that does not exist
\* or is not a directory at the time of the call, and that has no cache
\* entry, returns None without raising.
C15_MissingUncachedIsNone ==
  [][ ( /\ IsCall("get_directory_config")
        /\ ~IsDir(fs, last'.path)
        /\ last'.path \notin DOMAIN cached_directory_config )
      => last'.out = Return(NoneV)
    ]_vars

\* C15 witness: with entries in the cache, a call for a regular file that
\* sits below a valid configuration file returned None.
C15_Witness ==
  /\ last.op = "get_directory_config"
  /\ last.path = PhotoFile
  /\ IsFile(fs, PhotoFile)
  /\ NearestConfigFile(fs, PhotoDir) # <<>>
  /\ fs[NearestConfigFile(fs, PhotoDir)].content = IniMinute
  /\ last.out = Return(NoneV)
  /\ DOMAIN cached_directory_config = {PhotoDir}

(***************************************************************************)
(* C16  Dry-run gating                                                     *)
(***************************************************************************)

\* C16: a run of process_file, process_directory or traverse whose dryrun
\* argument is left out or True, and a run of main without --commit, calls
\* neither os.rename nor os.remove and leaves the filesystem as it was.
C16_DryRunGating ==
  [][ \A op \in {"process_file", "process_directory", "traverse", "main"} :
        ( IsCall(op) /\ last'.arg \in {"omitted", "True"} )
        => /\ \A i \in DOMAIN last'.log : last'.log[i].ev \notin {"rename", "remove"}
           /\ fs' = fs
    ]_vars

\* C16 witness: traverse with dryrun left out went over a directory that
\* holds a .DS_Store and a picture to rename, and both are still there.
C16_Witness ==
  /\ last.op = "traverse"
  /\ last.arg = "omitted"
  /\ last.path = PhotoDir
  /\ last.out = Return(NoneV)
  /\ \E i \in DOMAIN last.log :
       last.log[i].ev = "open" /\ last.log[i].path = PhotoFile
  /\ IsFile(fs, PhotoFile)
  /\ IsFile(fs, Join(PhotoDir, DS_Store))

(***************************************************************************)
(* C17  Error propagation                                                  *)
(***************************************************************************)

\* C17: in a run of process_file, process_directory, traverse or main, the
\* parse of a malformed configuration file is the last thing the run does
\* (nothing is looked up, renamed or removed after it, in that directory or
\* in a later one) and the run ends with the ValueError; a process_file or
\* process_directory run on a path that does not exist ends with
\* FileNotFoundError and changes nothing.
C17_ErrorPropagation ==
  [][ /\ \A op \in {"process_file", "process_directory", "traverse", "main"} :
           IsCall(op) =>
             \A i \in DOMAIN last'.log :
               ( /\ last'.log[i].ev = "parse"
                 /\ IsMalformed(fs[Resolve(last'.log[i].path)].content) )
               => /\ i = Len(last'.log)
                  /\ last'.out = Raise("ValueError")
      /\ ( IsCall("process_directory") /\ ~Exists(fs, last'.path) )
           => last'.out = Raise("FileNotFoundError") /\ fs' = fs
      /\ ( IsCall("process_file") /\ ~Exists(fs, Join(last'.path, last'.filename)) )
           => last'.out = Raise("FileNotFoundError") /\ fs' = fs
    ]_vars

\* C17 witness: traverse in commit mode renamed a file of the photo
\* directory, then met the malformed configuration file of the subdirectory
\* and ended with the ValueError, the file of the subdirectory untouched.
C17_Witness ==
  /\ last.op = "traverse"
  /\ last.arg = "False"
  /\ last.out = Raise("ValueError")
  /\ LastDid("rename")
  /\ last.log[Len(last.log)].ev = "parse"
  /\ last.log[Len(last.log)].path = Join(SubDir, IniName)
  /\ IsFile(fs, Join(SubDir, OtherName))

(***************************************************************************)
(* C18  process_file return value                                          *)
(***************************************************************************)

\* C18: process_file returns True exactly when it renamed or removed the
\* file, for every file, configuration and value of dryrun.
C18_ReturnValue ==
  (last.op = "process_file" /\ last.out.kind = "return")
    => (last.out = Return(BoolV(TRUE))) = (LastDid("rename") \/ LastDid("remove"))

(***************************************************************************)
(* C19  One resolution per directory                                       *)
(***************************************************************************)

\* C19 as stated: when a generate_filename call has searched for the
\* configuration of a directory, the next generate_filename call for a file
\* of that directory neither searches nor parses again.
C19_OneResolution ==
  [][ ( /\ last.op = "generate_filename"
        /\ LastDid("search")
        /\ IsCall("generate_filename")
        /\ last'.path = last.path )
      => \A i \in DOMAIN last'.log : last'.log[i].ev \notin {"search", "parse"}
    ]_vars

\* C19 amended: a generate_filename call whose search ended with a result
\* (a configuration or None) leaves a cache entry for the directory, and a
\* generate_filename call for a file of a directory that has a cache entry
\* neither searches nor parses; a search that ended with a config error
\* leaves no entry and is made again by the next call.
C19_OneResolutionOnceResolved ==
  [][ IsCall("generate_filename") =>
        /\ ( last'.out.kind = "return"
             /\ \E i \in DOMAIN last'.log : last'.log[i].ev = "search" )
           => last'.path \in DOMAIN cached_directory_config'
        /\ last'.path \in DOMAIN cached_directory_config
           => \A i \in DOMAIN last'.log : last'.log[i].ev \notin {"search", "parse"}
    ]_vars

\* C19 witness: a name was generated under the cached minute configuration
\* of the photo directory, with a lookup and without a search.
C19_Witness ==
  /\ last.op = "generate_filename"
  /\ last.path = PhotoDir
  /\ LastDid("get_directory_config")
  /\ ~LastDid("search")
  /\ IsName(last.out)
  /\ PhotoDir \in DOMAIN cached_directory_config
  /\ cached_directory_config[PhotoDir] = ConfigV("minute")

(***************************************************************************)
(* C20  Termination of the upward search                                   *)
(***************************************************************************)

\* C20: a get_directory_config call for an existing directory, given as an
\* absolute or as a relative path, comes to an end: it returns or it raises.
C20_SearchTerminates ==
  [][ ( IsCall("get_directory_config") /\ IsDir(fs, last'.path) )
      => last'.out.kind \in {"return", "raise"}
    ]_vars

(***************************************************************************)
(* C21  Step order                                                         *)
(***************************************************************************)

\* The position in the log of the first effect of the given kind, 0 for none.
FirstEvent(log, ev) ==
  IF \E i \in DOMAIN log : log[i].ev = ev
  THEN CHOOSE i \in DOMAIN log : log[i].ev = ev /\ \A j \in 1..(i - 1) : log[j].ev # ev
  ELSE 0

\* C21: the decision steps run in the order existence check, extension
\* classification, granularity lookup, prefix check, hash and compose: the
\* file is read only after the lookup, and the resolver is consulted only
\* for a file whose extension is recognised, so that a regular file with
\* none of the recognised extensions gets None with no lookup, no error and
\* no new cache entry.
C21_StepOrder ==
  [][ IsCall("generate_filename") =>
        /\ (LET lookup == FirstEvent(last'.log, "get_directory_config")
                stat   == FirstEvent(last'.log, "stat")
                open   == FirstEvent(last'.log, "open")
            IN  /\ stat # 0 => (lookup # 0 /\ lookup < stat)
                /\ open # 0 => (stat # 0 /\ stat < open))
        /\ (IsFile(fs, Join(last'.path, last'.filename)) /\ ~Supported(last'.filename))
           => /\ \A i \in DOMAIN last'.log :
                   last'.log[i].ev \notin {"get_directory_config", "search", "parse"}
              /\ last'.out = Return(NoneV)
              /\ cached_directory_config' = cached_directory_config
    ]_vars

(***************************************************************************)
(* C22  Cheap early exit                                                   *)
(***************************************************************************)

\* C22: a call of generate_filename that returns None (the extension is not
\* recognised, or the name matches the prefix pattern) reads no modification
\* time and opens no file; os.stat and open happen only in a call that
\* returns a composed name, and process_file reads no more than the
\* generate_filename it calls.
C22_CheapEarlyExit ==
  /\ (last.op = "generate_filename" /\ last.out = Return(NoneV))
       => (~LastDid("stat") /\ ~LastDid("open"))
  /\ (last.op = "generate_filename" /\ (LastDid("stat") \/ LastDid("open")))
       => IsName(last.out)
  /\ (last.op = "process_file" /\ (LastDid("stat") \/ LastDid("open")))
       => (last.out.kind = "return" /\ last.filename # DS_Store
           /\ ~C2_Matches(Granularity(cached_directory_config, last.path), last.filename))

\* C22 witness: generate_filename returned None, without a stat or an open,
\* for a picture of non-empty content whose name matches the prefix pattern.
C22_Witness ==
  /\ last.op = "generate_filename"
  /\ last.out = Return(NoneV)
  /\ Supported(last.filename)
  /\ IsFile(fs, LastFullPath)
  /\ fs[Resolve(LastFullPath)].content = "hello\n"
  /\ C2_Matches(Granularity(cached_directory_config, last.path), last.filename)
  /\ ~LastDid("stat") /\ ~LastDid("open")

(***************************************************************************)
(* C23  Already-correct check                                              *)
(***************************************************************************)

\* The file f holds under path/filename already bears the canonical name of
\* its modification time and content, for the granularity g.
AlreadyCorrect(f, path, filename, g, zone) ==
  /\ IsFile(f, Join(path, filename))
  /\ Supported(filename)
  /\ IsCanonicalName(filename, g, f[Resolve(Join(path, filename))],
                     CanonicalExtension(filename), zone)

\* C23: for a file whose name is exactly the canonical name of its
\* modification time, content and extension under the granularity resolved
\* for its directory, generate_filename returns that same name, and
\* process_file returns False, issues no rename and leaves the filesystem as
\* it is, in commit mode as in dry-run mode.
C23_AlreadyCorrect ==
  [][ \A op \in {"process_file", "generate_filename"} :
        ( /\ IsCall(op)
          /\ last'.path \in DOMAIN cached_directory_config'
          /\ AlreadyCorrect(fs, last'.path, last'.filename,
                            Granularity(cached_directory_config', last'.path), localzone) )
        => /\ fs' = fs
           /\ \A i \in DOMAIN last'.log : last'.log[i].ev # "rename"
           /\ last'.out = Return(IF op = "process_file" THEN BoolV(FALSE)
                                 ELSE StrV(last'.filename))
    ]_vars

\* C23 witness: the first call of a run, process_file in commit mode, found
\* a file that nobody renamed before under its canonical minute name and
\* returned False.
C23_Witness ==
  /\ calls = 1
  /\ last.op = "process_file"
  /\ ~last.dryrun
  /\ committed = {}
  /\ last.path \in DOMAIN cached_directory_config
  /\ cached_directory_config[last.path] = ConfigV("minute")
  /\ AlreadyCorrect(fs, last.path, last.filename, "minute", localzone)
  /\ LastDid("open")
  /\ last.out = Return(BoolV(FALSE))

(***************************************************************************)
(* C24  Stale hash                                                         *)
(***************************************************************************)

HexDigits == {"0","1","2","3","4","5","6","7","8","9","a","b","c","d","e","f"}

\* The length of the date prefix of a granularity, its last dash included.
PrefixLen(g) == IF g = "minute" THEN 16 ELSE 11

\* name is <date-prefix>-<oldhash>.<ext> for the granularity g: the date
\* prefix is that of the node's modification time, the ten hex characters
\* are not those of the node's content.
HasStaleHash(name, g, node, zone) ==
  LET pre == PrefixLen(g)
      ext == CanonicalExtension(name)
  IN  /\ Len(name) = pre + 10 + 1 + Len(ext)
      /\ IsDateOf(name, node.mtime, zone)
      /\ g = "minute" => (name[11] = "-" /\ IsMinuteOf(name, node.mtime, zone))
      /\ name[pre] = "-"
      /\ \A i \in 1..10 : name[pre + i] \in HexDigits
      /\ SubSeq(name, pre + 1, pre + 10) # SubSeq(Md5HexDigest(node.content), 1, 10)
      /\ name[pre + 11] = "."

\* C24: for a file named <date-prefix>-<oldhash>.<ext> in the form of the
\* granularity resolved for its directory (none, day or minute), whose
\* content no longer has that hash, generate_filename returns
\* <date-prefix>-<newhash>.<ext>: the same prefix, the first ten hex
\* characters of the digest of the present content, the canonical extension.
C24_StaleHashCorrected ==
  ( /\ last.op = "generate_filename"
    /\ IsFile(fs, LastFullPath)
    /\ Supported(last.filename)
    /\ last.path \in DOMAIN cached_directory_config
    /\ HasStaleHash(last.filename, Granularity(cached_directory_config, last.path),
                    fs[Resolve(LastFullPath)], localzone) )
  => last.out =
       Return(StrV(SubSeq(last.filename, 1,
                          PrefixLen(Granularity(cached_directory_config, last.path)))
                   \o SubSeq(Md5HexDigest(fs[Resolve(LastFullPath)].content), 1, 10)
                   \o <<".">> \o CanonicalExtension(last.filename)))

\* C24 witness: with no configuration file, generate_filename gave a file
\* named with the hash of "hello\n", and now empty, the hash of the empty
\* content.
C24_Witness ==
  /\ last.op = "generate_filename"
  /\ IsFile(fs, LastFullPath)
  /\ Supported(last.filename)
  /\ last.path \in DOMAIN cached_directory_config
  /\ cached_directory_config[last.path] = NoneV
  /\ fs[Resolve(LastFullPath)].content = ""
  /\ HasStaleHash(last.filename, "day", fs[Resolve(LastFullPath)], localzone)
  /\ IsName(last.out)
  /\ SubSeq(last.out.value.s, 12, 21) = <<"d","4","1","d","8","c","d","9","8","f">>

(***************************************************************************)
(* C25  Extent of the upward search                                        *)
(***************************************************************************)

\* C25: a get_directory_config call that misses the cache, for an existing
\* directory given as an absolute path, looks into the directory and then
\* into each ancestor up to the root, the root included: when any of them
\* holds a .autorename.ini, the nearest one is found and parsed, whether it
\* is valid or not.
C25_SearchReachesRoot ==
  [][ ( /\ IsCall("get_directory_config")
        /\ last'.path \in {PhotoDir, Cwd, Root}
        /\ last'.path \notin DOMAIN cached_directory_config
        /\ IsDir(fs, last'.path)
        /\ NearestConfigFile(fs, last'.path) # <<>> )
      => \E i \in DOMAIN last'.log :
           /\ last'.log[i].ev = "parse"
           /\ last'.log[i].path = NearestConfigFile(fs, last'.path)
    ]_vars

(***************************************************************************)
(* C26  Traversal coverage                                                 *)
(***************************************************************************)

\* The paths of the effects of the given kind, in the order of the log.
PathsOf(log, ev) ==
  LET sel == SelectSeq(log, LAMBDA e : e.ev = ev)
  IN  [i \in DOMAIN sel |-> sel[i].path]

\* Every element of S occurs once in the sequence q, and nothing else does.
ExactlyOnce(q, S) ==
  /\ \A i \in DOMAIN q : q[i] \in S
  /\ \A x \in S : Cardinality({ i \in DOMAIN q : q[i] = x }) = 1

\* p is dir or lies below it.
InTree(p, dir) == Len(p) >= Len(dir) /\ SubSeq(p, 1, Len(dir)) = dir

\* The directories of the tree of dir, and the regular files directly in a
\* directory.
TreeDirs(f, dir) == { p \in DOMAIN f : InTree(p, dir) /\ f[p].kind = "dir" }

FilesIn(f, dir) ==
  { p \in DOMAIN f : Len(p) = Len(dir) + 1 /\ InTree(p, dir) /\ f[p].kind = "file" }

\* The positions of the log at which process_directory starts on dir, and
\* ends: the next start of process_directory, or the end of the log.
StartOf(log, dir) ==
  CHOOSE i \in DOMAIN log : log[i].ev = "process_directory" /\ log[i].path = dir

EndOf(log, dir) ==
  IF \E j \in DOMAIN log : j > StartOf(log, dir) /\ log[j].ev = "process_directory"
  THEN CHOOSE j \in DOMAIN log :
         /\ j > StartOf(log, dir) /\ log[j].ev = "process_directory"
         /\ \A k \in (StartOf(log, dir) + 1)..(j - 1) : log[k].ev # "process_directory"
  ELSE Len(log) + 1

\* The run with the given log, from the filesystem f, went through the tree
\* of dir: process_directory once for each directory of the tree, in the
\* order of the paths, and within each, process_file once for each regular
\* file the directory held, and for nothing else.
Covered(f, log, dir) ==
  /\ ExactlyOnce(PathsOf(log, "process_directory"), TreeDirs(f, dir))
  /\ \A i, j \in DOMAIN PathsOf(log, "process_directory") :
       i < j => StrLess(PathString(PathsOf(log, "process_directory")[i]),
                        PathString(PathsOf(log, "process_directory")[j]))
  /\ ExactlyOnce(PathsOf(log, "process_file"),
                 UNION { FilesIn(f, d) : d \in TreeDirs(f, dir) })
  /\ \A d \in TreeDirs(f, dir) :
       ExactlyOnce(PathsOf(SubSeq(log, StartOf(log, d), EndOf(log, d) - 1), "process_file"),
                   FilesIn(f, d))

\* C26 as stated: every traverse on a directory goes through the whole tree.
C26_TraversalCoverage ==
  [][ (IsCall("traverse") /\ IsDir(fs, last'.path))
      => Covered(fs, last'.log, last'.path)
    ]_vars

\* C26, amended: a traverse on a directory that ends without an error calls
\* process_directory once for every directory of the tree, the target
\* included, in sorted path order, and each process_directory that ends
\* without an error calls process_file once for each regular file directly
\* in its directory, never for a subdirectory or a nested file.
C26_CoverageOfCompletedRuns ==
  [][ /\ (IsCall("traverse") /\ IsDir(fs, last'.path) /\ last'.out.kind = "return")
         => Covered(fs, last'.log, last'.path)
      /\ (IsCall("process_directory") /\ IsDir(fs, last'.path)
            /\ last'.out.kind = "return")
         => /\ PathsOf(last'.log, "process_directory") = <<last'.path>>
            /\ ExactlyOnce(PathsOf(last'.log, "process_file"), FilesIn(fs, last'.path))
    ]_vars

\* C26 witness: a traverse of the photo directory in commit mode ended
\* without an error after process_directory on both directories and
\* process_file on three files.
C26_Witness ==
  /\ last.op = "traverse"
  /\ last.path = PhotoDir
  /\ ~last.dryrun
  /\ last.out.kind = "return"
  /\ PathsOf(last.log, "process_directory") = <<PhotoDir, SubDir>>
  /\ Len(PathsOf(last.log, "process_file")) = 3
  /\ LastDid("rename")

(***************************************************************************)
(* C27  No file is lost by renaming                                        *)
(***************************************************************************)

\* No rename of the log, carried out from the filesystem f on, gives a file
\* the name of another file that exists at that moment.
RECURSIVE NoClobber(_, _)
NoClobber(f, log) ==
  IF log = <<>> THEN TRUE
  ELSE LET e == Head(log)
       IN  IF e.ev = "rename"
           THEN /\ (Resolve(e.to) \in DOMAIN f => Resolve(e.to) = Resolve(e.path))
                /\ NoClobber(Rename(f, e.path, e.to), Tail(log))
           ELSE IF e.ev = "remove" THEN NoClobber(Remove(f, e.path), Tail(log))
           ELSE NoClobber(f, Tail(log))

\* The regular files directly in dir other than .DS_Store.
KeptFiles(f, dir) == { p \in FilesIn(f, dir) : p[Len(p)] # DS_Store }

\* C27: in commit mode no rename process_file issues targets the name of
\* another existing file, so that process_directory leaves the number of
\* files other than .DS_Store as it was and every content that a file of
\* the directory held is still held by one.
C27_NoFileLost ==
  [][ (IsCall("process_directory") /\ IsDir(fs, last'.path) /\ ~last'.dryrun)
      => /\ NoClobber(fs, last'.log)
         /\ Cardinality(KeptFiles(fs', last'.path)) = Cardinality(KeptFiles(fs, last'.path))
         /\ \A p \in KeptFiles(fs, last'.path) :
              \E q \in KeptFiles(fs', last'.path) : fs'[q].content = fs[p].content
    ]_vars

(***************************************************************************)
(* C28  Prefix protection is granularity-specific                          *)
(***************************************************************************)

\* The granularity that is not g.
OtherGranularity(g) == IF g = "minute" THEN "day" ELSE "minute"

\* C28: only the pattern of the granularity resolved for the directory
\* protects a name: a regular file with a recognised extension whose name
\* matches the pattern of the other granularity and not its own (the day
\* pattern under a minute configuration; the minute pattern under a day
\* configuration or none) is given a new name, made of the date prefix of
\* the resolved granularity, the hash and the extension.
C28_PrefixOfOtherGranularity ==
  \A g \in {"day", "minute"} :
    ( /\ last.op = "generate_filename"
      /\ IsFile(fs, LastFullPath)
      /\ Supported(last.filename)
      /\ last.path \in DOMAIN cached_directory_config
      /\ Granularity(cached_directory_config, last.path) = g
      /\ C2_Matches(OtherGranularity(g), last.filename) )
    => /\ ~C2_Matches(g, last.filename)
       /\ IsName(last.out)
       /\ last.out.value.s # last.filename
       /\ Len(last.out.value.s) = PrefixLen(g) + 10 + 1 + Len(CanonicalExtension(last.filename))
       /\ ~C2_Matches("day", last.out.value.s)
       /\ ~C2_Matches("minute", last.out.value.s)

\* C28 witness: under a minute configuration generate_filename named a file
\* whose name matches the day pattern.
C28_Witness ==
  /\ last.op = "generate_filename"
  /\ IsFile(fs, LastFullPath)
  /\ last.path \in DOMAIN cached_directory_config
  /\ cached_directory_config[last.path] = ConfigV("minute")
  /\ C2_Matches("day", last.filename)
  /\ IsName(last.out)
  /\ Len(last.out.value.s) = 16 + 10 + 1 + 3

(***************************************************************************)
(* C29  Cache invariant                                                    *)
(***************************************************************************)

\* C29: every entry of cached_directory_config is None or a configuration
\* whose prefix_timestamp is minute or day; a get_directory_config call
\* that raises, or that is made for a path that does not exist or is no
\* directory, leaves the cache as it was.
C29_CacheInvariant ==
  [][ /\ \A d \in DOMAIN cached_directory_config' :
           cached_directory_config'[d] \in {NoneV, ConfigV("minute"), ConfigV("day")}
      /\ ( /\ IsCall("get_directory_config")
           /\ (last'.out.kind = "raise" \/ ~IsDir(fs, last'.path)) )
         => cached_directory_config' = cached_directory_config
    ]_vars

\* C29 witness: with one directory in the cache, a call for another
\* directory ended with a ValueError and there is still that one entry.
C29_Witness ==
  /\ last.op = "get_directory_config"
  /\ last.out = Raise("ValueError")
  /\ LastDid("parse")
  /\ DOMAIN cached_directory_config # {}
  /\ last.path \notin DOMAIN cached_directory_config

(***************************************************************************)
(* C30  Single-file target                                                 *)
(***************************************************************************)

\* The granularity the nearest configuration file of a directory stands
\* for, day when there is none.
GranularityOf(f, dir) ==
  IF NearestConfigFile(f, dir) # <<>> /\ f[NearestConfigFile(f, dir)].content = IniMinute
  THEN "minute" ELSE "day"

\* C30: traverse in commit mode on a file target, given as an absolute path
\* or as a bare name in the working directory, renames the file to the
\* canonical name of the granularity that the nearest configuration file of
\* the file's directory sets (day when there is none), when that file is
\* valid and the name is neither protected by the prefix pattern nor
\* already the canonical one.
C30_FileTargetUsesDirectoryConfig ==
  [][ LET file == Resolve(last'.path)
          dir  == Dirname(file)
          name == Basename(file)
          g    == GranularityOf(fs, dir)
      IN  ( /\ IsCall("traverse")
            /\ ~last'.dryrun
            /\ IsFile(fs, last'.path)
            /\ Supported(name)
            /\ NearestConfigFile(fs, dir) # <<>>
                 => fs[NearestConfigFile(fs, dir)].content \in {IniDay, IniMinute}
            /\ ~C2_Matches(g, name)
            /\ ~AlreadyCorrect(fs, dir, name, g, localzone) )
          => /\ last'.out.kind = "return"
             /\ file \notin DOMAIN fs'
             /\ \E q \in DOMAIN fs' :
                  /\ Dirname(q) = dir
                  /\ fs'[q] = fs[file]
                  /\ IsCanonicalName(Basename(q), g, fs[file],
                                     CanonicalExtension(name), localzone)
    ]_vars

====
